---- MODULE Spec2Model ----
(***************************************************************************)
(* Women in Mathematics adapter: the name-to-file matcher, the entity      *)
(* resolver and the dataset builder of prepare.py, and the two-phase       *)
(* submitter of submit.py.                                                 *)
(*                                                                         *)
(* Python strings are sequences of one-character strings, so that lower(), *)
(* split(), replace() and the "in" substring test are computed as Python   *)
(* computes them.  An Optional value is a record [none, val].              *)
(***************************************************************************)
EXTENDS Integers, Sequences, FiniteSets, TLC

VARIABLES
    \* ---- prepare.py: WomenInMathAdapter
    personal,       \* self.personal: the rows of personal.csv, in order
    text_dir,       \* the listing of self.text_dir.glob("*.txt"), in order
    text_files,     \* self.text_files: dict full_name -> text file
    stems,          \* the value of `stem` computed for each listed file
    adapter_pc,     \* "idle", "init", "constructed", "mapped", "loop" or "returned"
    env,            \* map_entity's collaborators: search outcome, validator
    mapping,        \* map_entity's outcome: returned dict, or raised
    authors,        \* prepare: authors
    texts,          \* prepare: texts
    author_rows,    \* row of personal that produced each entry of authors
    text_rows,      \* row of personal that produced each entry of texts
    idx,            \* prepare: number of rows already processed
    raised_at,      \* per processed row: where its exception was raised
    \* ---- submit.py: WomenInMathSubmitter and main
    args,           \* argparse namespace: metadata_only, texts_only
    dataset_file,   \* output/dataset.json: "absent" | "valid" | "corrupt"
    texts_file,     \* output/texts.json: [exists, texts]
    submit_pc,      \* position of main / submit_all
    branch,         \* branch of main taken
    posts,          \* every requests.post issued, in order, with its outcome
    metadata_ret,   \* submit_metadata: "pending" | "True" | "False" | "raised"
    texts_ret,      \* submit_texts: [returned, value]
    text_pos,       \* submit_texts: items already handled by the loop
    success_count,  \* submit_texts: success_count
    failed_count    \* submit_texts: failed_count

adapter_vars == <<personal, text_dir, text_files, stems, adapter_pc, env, mapping,
                  authors, texts, author_rows, text_rows, idx, raised_at>>
submit_vars == <<args, dataset_file, texts_file, submit_pc, branch, posts,
                 metadata_ret, texts_ret, text_pos, success_count, failed_count>>
vars == <<adapter_vars, submit_vars>>

(***************************************************************************)
(* Bounds of the explored inputs.                                          *)
(***************************************************************************)
MaxNames == 2
MaxFiles == 2
MaxTexts == 3
MaxResults == 2

(***************************************************************************)
(* Optional values and small sequence helpers.                             *)
(***************************************************************************)
None == [none |-> TRUE, val |-> <<>>]
Some(v) == [none |-> FALSE, val |-> v]

SeqsUpTo(S, n) == UNION {[1..k -> S] : k \in 0..n}
Range(s) == {s[i] : i \in DOMAIN s}
IsInjective(s) == \A i, j \in DOMAIN s : s[i] = s[j] => i = j

(***************************************************************************)
(* Python str methods on character sequences.                              *)
(***************************************************************************)
UpperAlpha == <<"A","B","C","D","E","F","G","H","I","J","K","L","M","N","O","P","Q","R","S","T","U","V","W","X","Y","Z">>
LowerAlpha == <<"a","b","c","d","e","f","g","h","i","j","k","l","m","n","o","p","q","r","s","t","u","v","w","x","y","z">>

LowerOf == [c \in Range(UpperAlpha) |->
               LowerAlpha[CHOOSE k \in DOMAIN UpperAlpha : UpperAlpha[k] = c]]

LowerChar(c) == IF c \in DOMAIN LowerOf THEN LowerOf[c] ELSE c

\* str.lower()
Lower(s) == [i \in DOMAIN s |-> LowerChar(s[i])]

\* whether `sub` occurs in s at position i
OccursAt(s, sub, i) ==
    /\ i + Len(sub) - 1 <= Len(s)
    /\ \A k \in 1..Len(sub) : s[i + k - 1] = sub[k]

\* sub in s
Contains(s, sub) == \E i \in 1..(Len(s) + 1) : OccursAt(s, sub, i)

RECURSIVE ReplaceFrom(_, _, _, _)
ReplaceFrom(s, old, new, i) ==
    IF i > Len(s) THEN <<>>
    ELSE IF OccursAt(s, old, i)
         THEN new \o ReplaceFrom(s, old, new, i + Len(old))
         ELSE <<s[i]>> \o ReplaceFrom(s, old, new, i + 1)

\* str.replace(old, new) for a non-empty old: every occurrence, left to right
Replace(s, old, new) == ReplaceFrom(s, old, new, 1)

RECURSIVE SplitFrom(_, _, _)
SplitFrom(s, i, word) ==
    IF i > Len(s) THEN (IF word = <<>> THEN <<>> ELSE <<word>>)
    ELSE IF s[i] = " "
         THEN (IF word = <<>> THEN <<>> ELSE <<word>>) \o SplitFrom(s, i + 1, <<>>)
         ELSE SplitFrom(s, i + 1, Append(word, s[i]))

\* str.split(): on runs of whitespace, no empty parts
Split(s) == SplitFrom(s, 1, <<>>)

RECURSIVE Join(_, _)
\* sep.join(parts)
Join(parts, sep) ==
    IF parts = <<>> THEN <<>>
    ELSE IF Len(parts) = 1 THEN parts[1]
         ELSE parts[1] \o sep \o Join(Tail(parts), sep)

(***************************************************************************)
(* Literals of the source.                                                 *)
(***************************************************************************)
PdfTxt == <<".","p","d","f",".","t","x","t">>
Txt == <<".","t","x","t">>
WikidataPrefix == <<"w","i","k","i","d","a","t","a",":">>
LocalPrefix == <<"l","o","c","a","l",":","w","o","m","e","n","-","i","n","-","m","a","t","h",":">>
Mathematician == <<"m","a","t","h","e","m","a","t","i","c","i","a","n">>

(***************************************************************************)
(* Inputs explored: full names and text file names.                        *)
(***************************************************************************)
RachelAdams == <<"R","a","c","h","e","l"," ","A","d","a","m","s">>
SisterMaryNicholasArnoldy == <<"S","i","s","t","e","r"," ","M","a","r","y"," ","N","i","c","h","o","l","a","s"," ","A","r","n","o","l","d","y">>
MaryJaneAdams == <<"M","a","r","y"," ","J","a","n","e"," ","A","d","a","m","s">>
MaryAnnAdams == <<"M","a","r","y"," ","A","n","n"," ","A","d","a","m","s">>
JDotAdams == <<"J","."," ","A","d","a","m","s">>
AnnaPellWheeler == <<"A","n","n","a"," ","(","P","e","l","l",")"," ","W","h","e","e","l","e","r">>
Hypatia == <<"H","y","p","a","t","i","a">>

File_adams_rachel_pdf_txt == <<"a","d","a","m","s","_","r","a","c","h","e","l",".","p","d","f",".","t","x","t">>
File_ADAMS_RACHEL_txt == <<"A","D","A","M","S","_","R","A","C","H","E","L",".","t","x","t">>
File_arnoldy_nicholas_txt == <<"a","r","n","o","l","d","y","_","n","i","c","h","o","l","a","s",".","t","x","t">>
File_adams_mary_txt == <<"a","d","a","m","s","_","m","a","r","y",".","t","x","t">>
File_adams_jane_txt == <<"a","d","a","m","s","_","j","a","n","e",".","t","x","t">>
File_j_adams_txt == <<"j","_","a","d","a","m","s",".","t","x","t">>
File_wheeler_anna_pell_txt == <<"w","h","e","e","l","e","r","_","a","n","n","a","_","p","e","l","l",".","t","x","t">>
File_hypatia_txt_pdf_txt == <<"h","y","p","a","t","i","a",".","t","x","t",".","p","d","f",".","t","x","t">>

\* names and listings given to the matcher
NameSamples ==
    {RachelAdams, SisterMaryNicholasArnoldy, MaryJaneAdams, MaryAnnAdams,
     JDotAdams, AnnaPellWheeler, Hypatia}

FileSamples ==
    {File_adams_rachel_pdf_txt, File_ADAMS_RACHEL_txt, File_arnoldy_nicholas_txt,
     File_adams_mary_txt, File_adams_jane_txt, File_j_adams_txt,
     File_wheeler_anna_pell_txt, File_hypatia_txt_pdf_txt}

\* names given to the resolver
ResolveNames == {RachelAdams, JDotAdams, AnnaPellWheeler, Hypatia}

\* names and files given to the builder
PrepareNames == {RachelAdams, JDotAdams, Hypatia}
PrepareFiles == {File_adams_rachel_pdf_txt, File_j_adams_txt}

AllNames == NameSamples \cup ResolveNames \cup PrepareNames
AllFiles == FileSamples \cup PrepareFiles

\* a row of personal.csv; a year cell is a number ("1850", "1921"), missing
\* ("nan") or a text int() cannot convert ("n/a")
Person(name, birthyear, deathyear) ==
    [full_name |-> name, birthyear |-> birthyear, deathyear |-> deathyear,
     birthplace |-> "Vermont"]

EmptyMapping == [n \in {} |-> <<>>]

(***************************************************************************)
(* WomenInMathAdapter._build_text_mapping                                  *)
(***************************************************************************)
\* candidates of one name, after the clean-up pass, in generation order
Candidates(name) ==
    LET name_parts == Split(name)
        n == Len(name_parts)
        lastname == Lower(name_parts[n])
        firstnames == [i \in 1..(n - 1) |-> Lower(name_parts[i])]
        firstname == Lower(name_parts[1])
        by_lastname ==
            IF n >= 2
            THEN <<lastname \o <<"_">> \o Join(firstnames, <<"_">>)>>
                 \o (IF Len(firstnames) > 1
                     THEN <<lastname \o <<"_">> \o firstnames[Len(firstnames)],
                            lastname \o <<"_">> \o firstnames[1]>>
                     ELSE <<>>)
            ELSE <<>>
        by_firstname ==
            IF n >= 2 THEN <<firstname \o <<"_">> \o lastname>> ELSE <<>>
        as_is ==
            Replace(Replace(Replace(Lower(name), <<" ">>, <<"_">>), <<".">>, <<>>), <<",">>, <<>>)
        raw == by_lastname \o by_firstname \o <<as_is>>
    IN  [i \in DOMAIN raw |->
            Replace(Replace(Replace(raw[i], <<"(">>, <<>>), <<")">>, <<>>), <<".">>, <<>>)]

\* stem of a text file's name
Stem(file_name) == Replace(Replace(file_name, PdfTxt, <<>>), Txt, <<>>)

\* Candidates and Stem tabulated over the explored names and files, so that each
\* is computed once
CandidatesOf == [name \in AllNames |-> Candidates(name)]
StemOf == [file_name \in AllFiles |-> Stem(file_name)]

\* stem.lower() == candidate.lower(), for the stem of a file
Matches(stem, candidate) == Lower(stem) = Lower(candidate)

\* mutation: the inner loop has no break, the last matching file wins
TryCandidateLastFile(m, name, candidate, files, file_stems) ==
    IF \E j \in DOMAIN files : Matches(file_stems[j], candidate)
    THEN LET j == CHOOSE k \in DOMAIN files :
                    /\ Matches(file_stems[k], candidate)
                    /\ \A l \in (k + 1)..Len(files) : ~Matches(file_stems[l], candidate)
         IN  [x \in (DOMAIN m) \cup {name} |-> IF x = name THEN files[j] ELSE m[x]]
    ELSE m

\* the inner loop over text_files for one candidate: mapping[name] = text_file; break
\* (file_stems[j] is the stem the loop computes for files[j])
TryCandidate(m, name, candidate, files, file_stems) ==
    IF \E j \in DOMAIN files : Matches(file_stems[j], candidate)
    THEN LET j == CHOOSE k \in DOMAIN files :
                    /\ Matches(file_stems[k], candidate)
                    /\ \A l \in 1..(k - 1) : ~Matches(file_stems[l], candidate)
         IN  [x \in (DOMAIN m) \cup {name} |-> IF x = name THEN files[j] ELSE m[x]]
    ELSE m

RECURSIVE TryCandidates(_, _, _, _, _, _)
\* the loop over candidates: stops when `name in mapping`
TryCandidates(m, name, cands, i, files, file_stems) ==
    IF i > Len(cands) THEN m
    ELSE LET m2 == TryCandidate(m, name, cands[i], files, file_stems)
         IN  IF name \in DOMAIN m2 THEN m2
             ELSE TryCandidates(m2, name, cands, i + 1, files, file_stems)

RECURSIVE MatchRows(_, _, _, _, _)
\* the loop over self.personal.iterrows()
MatchRows(m, rows, r, files, file_stems) ==
    IF r > Len(rows) THEN m
    ELSE LET name == rows[r].full_name
         IN  MatchRows(TryCandidates(m, name, CandidatesOf[name], 1, files, file_stems),
                       rows, r + 1, files, file_stems)

\* the stem computed for each listed file
Stems(files) == [j \in DOMAIN files |-> StemOf[files[j]]]

build_text_mapping(rows, files) == MatchRows(EmptyMapping, rows, 1, files, Stems(files))

(***************************************************************************)
(* WomenInMathAdapter.lookup_wikidata                                      *)
(***************************************************************************)
Q7251 == <<"Q","7","2","5","1">>
Q11641 == <<"Q","1","1","6","4","1">>
DescAmericanMathematician == <<"A","m","e","r","i","c","a","n"," ","M","a","t","h","e","m","a","t","i","c","i","a","n">>
DescEnglishPainter == <<"E","n","g","l","i","s","h"," ","p","a","i","n","t","e","r">>

\* one entry of the "search" list of the response.  id: the "id" key, None when
\* the key is missing.  description: "str" (a string), "absent" (no such key)
\* or "null" (JSON null).
SearchResult(id, dkind, dval) == [id |-> id, dkind |-> dkind, dval |-> dval]

ResultSamples ==
    {SearchResult(Some(Q7251), "str", DescAmericanMathematician),
     SearchResult(Some(Q11641), "str", DescEnglishPainter),
     SearchResult(Some(Q11641), "absent", <<>>),
     SearchResult(Some(Q7251), "null", <<>>),
     SearchResult(None, "str", DescAmericanMathematician)}

\* what requests.get does: "response" with a status code and a search list, or
\* "exception" (timeout, connection error, a body that is not JSON)
SearchOutcomes ==
    {[kind |-> "response", status |-> "200", results |-> r] :
        r \in SeqsUpTo(ResultSamples, MaxResults)}
    \cup {[kind |-> "response", status |-> "503", results |-> <<>>],
          [kind |-> "exception", status |-> "none", results |-> <<>>]}

RECURSIVE ScanResults(_, _)
\* the loop over results; an exception inside it is caught by the except clause
ScanResults(results, i) ==
    IF i > Len(results) THEN None
    ELSE LET result == results[i]
         IN  IF result.dkind = "null" THEN None            \* None.lower() raises
             ELSE LET desc == IF result.dkind = "absent" THEN <<>> ELSE Lower(result.dval)
                  IN  IF Contains(desc, Mathematician)
                      THEN (IF result.id.none THEN None    \* result["id"] raises
                            ELSE Some(result.id.val))
                      ELSE ScanResults(results, i + 1)

lookup_wikidata(search) ==
    IF search.kind = "exception" THEN None
    ELSE IF search.status # "200" THEN None
    ELSE ScanResults(search.results, 1)

(***************************************************************************)
(* WomenInMathAdapter.map_entity                                           *)
(***************************************************************************)
\* name.lower().replace(" ", "_").replace(".", "").replace(",", "")
\*     .replace("(", "").replace(")", "")
LocalId(name) ==
    Replace(Replace(Replace(Replace(Replace(Lower(name),
        <<" ">>, <<"_">>), <<".">>, <<>>), <<",">>, <<>>), <<"(">>, <<>>), <<")">>, <<>>)

\* mutation: the wikidata branch keeps no local alternate
EntityIdsNoAlternate(name, wikidata_qid) ==
    IF ~wikidata_qid.none /\ wikidata_qid.val # <<>>
    THEN [entity_id |-> WikidataPrefix \o wikidata_qid.val,
          entity_ids |-> None,
          confidence |-> "0.8"]
    ELSE [entity_id |-> LocalPrefix \o LocalId(name),
          entity_ids |-> None,
          confidence |-> "0.5"]

\* the identifiers chosen by the if/else on wikidata_qid
EntityIds(name, wikidata_qid) ==
    IF ~wikidata_qid.none /\ wikidata_qid.val # <<>>
    THEN [entity_id |-> WikidataPrefix \o wikidata_qid.val,
          entity_ids |-> Some(<<LocalPrefix \o LocalId(name)>>),
          confidence |-> "0.8"]
    ELSE [entity_id |-> LocalPrefix \o LocalId(name),
          entity_ids |-> None,
          confidence |-> "0.5"]

NoEntity == [entity_id |-> <<>>, entity_ids |-> None, confidence |-> "none"]

\* map_entity after the lookup.  valid_id, valid_alt: the validator's answers
\* for entity_id and for the alternate
Validated(person, wikidata_qid, valid_id, valid_alt) ==
    LET ids == EntityIds(person.full_name, wikidata_qid)
    IN  IF ~valid_id THEN [raised |-> TRUE, val |-> NoEntity]
        ELSE IF ~ids.entity_ids.none /\ ids.entity_ids.val # <<>> /\ ~valid_alt
             THEN [raised |-> TRUE, val |-> NoEntity]
             ELSE [raised |-> FALSE, val |-> ids]

map_entity(person, search, valid_id, valid_alt) ==
    Validated(person, lookup_wikidata(search), valid_id, valid_alt)

\* every value lookup_wikidata can return
LookupResults == {lookup_wikidata(search) : search \in SearchOutcomes}

(***************************************************************************)
(* WomenInMathAdapter.get_text and prepare                                 *)
(***************************************************************************)
BioText == <<"b","i","o">>

\* the file system at get_text: "missing" (exists() is false), "text" (contents
\* read), "empty" (an empty file), "error" (read_text raises)
ReadOutcomes == {"missing", "text", "empty", "error"}

get_text(mapped, name, read) ==
    IF name \in DOMAIN mapped /\ read # "missing"
    THEN (IF read = "error" THEN [raised |-> TRUE, val |-> None]
          ELSE [raised |-> FALSE, val |-> Some(IF read = "text" THEN BioText ELSE <<>>)])
    ELSE [raised |-> FALSE, val |-> None]

\* int(cell) if pd.notna(cell) else None, for a cell that converts
YearOf(cell) == IF cell = "nan" THEN None ELSE Some(cell)
YearRaises(cell) == cell = "n/a"

AuthorRecord(ids, person) ==
    [entity_id |-> ids.entity_id,
     entity_ids |-> ids.entity_ids,
     entity_type |-> "person",
     confidence |-> ids.confidence,
     name |-> person.full_name,
     biographical_data |->
        [birth_year |-> YearOf(person.birthyear),
         death_year |-> YearOf(person.deathyear),
         birthplace |-> person.birthplace,
         field |-> "wikidata:Q395"]]

\* mutation: the text is filed under the local alternate when there is one
TextEntryAlternateId(ids, text) ==
    [entity_id |-> IF ids.entity_ids.none THEN ids.entity_id ELSE ids.entity_ids.val[1],
     text |-> text]

TextEntry(ids, text) == [entity_id |-> ids.entity_id, text |-> text]

\* one iteration of the loop of prepare, for the row after the idx processed ones,
\* given what the lookup inside map_entity returned: the new authors and texts,
\* and the place where an exception was raised
PrepareRow(person, row, wikidata_qid, valid_id, valid_alt, read) ==
    LET m == Validated(person, wikidata_qid, valid_id, valid_alt)
        same == [authors |-> authors, author_rows |-> author_rows,
                 texts |-> texts, text_rows |-> text_rows, raised |-> "none"]
    IN  IF m.raised THEN [same EXCEPT !.raised = "map_entity"]
        ELSE IF YearRaises(person.birthyear) \/ YearRaises(person.deathyear)
             THEN [same EXCEPT !.raised = "author"]
        ELSE LET with_author ==
                    [same EXCEPT !.authors = Append(authors, AuthorRecord(m.val, person)),
                                 !.author_rows = Append(author_rows, row)]
                 t == get_text(text_files, person.full_name, read)
             IN  IF t.raised THEN [with_author EXCEPT !.raised = "get_text"]
                 ELSE IF ~t.val.none /\ t.val.val # <<>>
                      THEN [with_author EXCEPT
                                !.texts = Append(texts, TextEntry(m.val, t.val.val)),
                                !.text_rows = Append(text_rows, row)]
                      ELSE with_author

(***************************************************************************)
(* The adapter as a state machine.                                         *)
(***************************************************************************)
SubmitIdle ==
    /\ args = [metadata_only |-> FALSE, texts_only |-> FALSE]
    /\ dataset_file = "absent"
    /\ texts_file = [exists |-> FALSE, texts |-> <<>>]
    /\ submit_pc = "idle"
    /\ branch = "none"
    /\ posts = <<>>
    /\ metadata_ret = "pending"
    /\ texts_ret = [returned |-> FALSE, value |-> 0]
    /\ text_pos = 0
    /\ success_count = 0
    /\ failed_count = 0

NoEnv == [search |-> [kind |-> "exception", status |-> "none", results |-> <<>>],
          valid_id |-> TRUE, valid_alt |-> TRUE]

PrepareIdle ==
    /\ authors = <<>>
    /\ texts = <<>>
    /\ author_rows = <<>>
    /\ text_rows = <<>>
    /\ idx = 0
    /\ raised_at = <<>>

Listings(files, n) == {l \in SeqsUpTo(files, n) : IsInjective(l)}

\* ---- the matcher: any rows, any listing, then __init__ builds the mapping
MatchPersons == {Person(n, "1850", "1921") : n \in NameSamples}

InitMatch ==
    /\ personal \in SeqsUpTo(MatchPersons, MaxNames)
    /\ text_dir \in Listings(FileSamples, MaxFiles)
    /\ text_files = EmptyMapping
    /\ stems = <<>>
    /\ adapter_pc = "init"
    /\ env = NoEnv
    /\ mapping = [raised |-> FALSE, val |-> NoEntity]
    /\ PrepareIdle
    /\ SubmitIdle

\* WomenInMathAdapter.__init__: self.text_files = self._build_text_mapping()
Construct ==
    /\ adapter_pc = "init"
    /\ text_files' = build_text_mapping(personal, text_dir)
    /\ stems' = IF personal = <<>> THEN <<>> ELSE Stems(text_dir)
    /\ adapter_pc' = "constructed"
    /\ UNCHANGED <<personal, text_dir, env, mapping, authors, texts, author_rows,
                   text_rows, idx, raised_at, submit_vars>>

NextMatch == Construct

SpecMatch == InitMatch /\ [][NextMatch]_vars

\* ---- the resolver: one person, any search outcome, any validator answers
InitResolve ==
    /\ personal \in {<<Person(n, "1850", "nan")>> : n \in ResolveNames}
    /\ text_dir = <<>>
    /\ text_files = EmptyMapping
    /\ stems = <<>>
    /\ adapter_pc = "constructed"
    /\ env \in [search : SearchOutcomes, valid_id : BOOLEAN, valid_alt : BOOLEAN]
    /\ mapping = [raised |-> FALSE, val |-> NoEntity]
    /\ PrepareIdle
    /\ SubmitIdle

\* a call of map_entity(person)
MapEntity ==
    /\ adapter_pc = "constructed"
    /\ mapping' = map_entity(personal[1], env.search, env.valid_id, env.valid_alt)
    /\ adapter_pc' = "mapped"
    /\ UNCHANGED <<personal, text_dir, text_files, stems, env, authors, texts,
                   author_rows, text_rows, idx, raised_at, submit_vars>>

NextResolve == MapEntity

SpecResolve == InitResolve /\ [][NextResolve]_vars

\* ---- the builder: a constructed adapter, then prepare()
PreparePersons ==
    {Person(RachelAdams, "1850", "1921"), Person(JDotAdams, "nan", "nan"),
     Person(Hypatia, "n/a", "nan")}
InitPrepare ==
    /\ personal \in SeqsUpTo(PreparePersons, MaxNames)
    /\ text_dir \in Listings(PrepareFiles, MaxFiles)
    /\ text_files = build_text_mapping(personal, text_dir)
    /\ stems = IF personal = <<>> THEN <<>> ELSE Stems(text_dir)
    /\ adapter_pc = "loop"
    /\ env = NoEnv
    /\ mapping = [raised |-> FALSE, val |-> NoEntity]
    /\ PrepareIdle
    /\ SubmitIdle

\* one iteration of `for idx, person in self.personal.iterrows()`
PrepareRecord ==
    /\ adapter_pc = "loop"
    /\ idx < Len(personal)
    /\ \E wikidata_qid \in LookupResults, valid_id \in BOOLEAN, valid_alt \in BOOLEAN,
          read \in ReadOutcomes :
          LET r == PrepareRow(personal[idx + 1], idx + 1, wikidata_qid, valid_id, valid_alt, read)
          IN  /\ authors' = r.authors
              /\ author_rows' = r.author_rows
              /\ texts' = r.texts
              /\ text_rows' = r.text_rows
              /\ raised_at' = Append(raised_at, r.raised)
    /\ idx' = idx + 1
    /\ UNCHANGED <<personal, text_dir, text_files, stems, adapter_pc, env, mapping,
                   submit_vars>>

\* the end of the loop: dataset and texts are returned
PrepareReturn ==
    /\ adapter_pc = "loop"
    /\ idx = Len(personal)
    /\ adapter_pc' = "returned"
    /\ UNCHANGED <<personal, text_dir, text_files, stems, env, mapping, authors, texts,
                   author_rows, text_rows, idx, raised_at, submit_vars>>

NextPrepare == PrepareRecord \/ PrepareReturn

SpecPrepare == InitPrepare /\ [][NextPrepare]_vars

(***************************************************************************)
(* submit.py: WomenInMathSubmitter and main.                               *)
(***************************************************************************)
\* f"{api_url}/api/{dataset_id}" and f"{api_url}/api/{dataset_id}/ingest"
MetadataUrl == "/api/women-in-math"
IngestUrl == "/api/women-in-math/ingest"

\* what requests.post does: a response with a status code and a body that is
\* JSON or not, or an exception (ConnectionError, or any other)
Response(status, json) == [kind |-> "response", status |-> status, json |-> json]
ConnectionError == [kind |-> "connection_error", status |-> "none", json |-> FALSE]
OtherException == [kind |-> "exception", status |-> "none", json |-> FALSE]

PostOutcomes ==
    {Response("200", TRUE), Response("200", FALSE), Response("500", FALSE),
     ConnectionError, OtherException}

TextItems ==
    {[entity_id |-> "wikidata:Q7251", text |-> "bio of Q7251"],
     [entity_id |-> "local:women-in-math:j_adams", text |-> "bio of j_adams"]}

Post(url, body, response) == [url |-> url, body |-> body, response |-> response]
DatasetBody == [entity_id |-> "dataset.json", text |-> "dataset.json"]

\* mutation: the elif tested before the if
MainBranchTextsFirst(a) ==
    IF a.texts_only THEN "texts_only"
    ELSE IF a.metadata_only THEN "metadata_only"
    ELSE "submit_all"

\* main: if args.metadata_only / elif args.texts_only / else
MainBranch(a) ==
    IF a.metadata_only THEN "metadata_only"
    ELSE IF a.texts_only THEN "texts_only"
    ELSE "submit_all"

\* submit_metadata, given the outcome of its POST: the try block
MetadataResult(response) ==
    IF response.kind = "response"
    THEN (IF response.status = "200"
          THEN (IF response.json THEN "True" ELSE "False")   \* response.json() raises
          ELSE "False")
    ELSE "False"

\* mutation: submit_all ignores the result of submit_metadata
AfterMetadataNoAbort(b, ret) ==
    IF ret = "raised" THEN "raised"
    ELSE IF b = "submit_all" THEN "submit_texts"
    ELSE "done"

\* where control goes after submit_metadata: submit_all aborts unless it
\* returned True; an exception leaves main
AfterMetadata(b, ret) ==
    IF ret = "raised" THEN "raised"
    ELSE IF b = "submit_all" /\ ret = "True" THEN "submit_texts"
    ELSE "done"

\* the try block of the loop of submit_texts: whether the item counts as success
ItemSucceeded(response) ==
    response.kind = "response" /\ response.status = "200" /\ response.json

\* mutation: the loop breaks at the first item that fails
AfterItemStopOnFailure(pos, succeeded, n) == IF succeeded THEN pos + 1 ELSE n

\* the loop of submit_texts after an item: the next item, whatever happened
AfterItem(pos, succeeded, n) == pos + 1

InitSubmit ==
    /\ args \in [metadata_only : BOOLEAN, texts_only : BOOLEAN]
    /\ dataset_file \in {"absent", "valid", "corrupt"}
    /\ texts_file \in
          {[exists |-> FALSE, texts |-> <<>>]}
          \cup {[exists |-> TRUE, texts |-> t] : t \in SeqsUpTo(TextItems, MaxTexts)}
    /\ submit_pc = "main"
    /\ branch = "none"
    /\ posts = <<>>
    /\ metadata_ret = "pending"
    /\ texts_ret = [returned |-> FALSE, value |-> 0]
    /\ text_pos = 0
    /\ success_count = 0
    /\ failed_count = 0
    /\ personal = <<>>
    /\ text_dir = <<>>
    /\ text_files = EmptyMapping
    /\ stems = <<>>
    /\ adapter_pc = "idle"
    /\ env = NoEnv
    /\ mapping = [raised |-> FALSE, val |-> NoEntity]
    /\ PrepareIdle

\* main up to the call it makes
Main ==
    /\ submit_pc = "main"
    /\ branch' = MainBranch(args)
    /\ submit_pc' = IF branch' = "texts_only" THEN "submit_texts" ELSE "submit_metadata"
    /\ UNCHANGED <<args, dataset_file, texts_file, posts, metadata_ret, texts_ret,
                   text_pos, success_count, failed_count, adapter_vars>>

\* submit_metadata, and the test submit_all makes of its result
SubmitMetadata ==
    /\ submit_pc = "submit_metadata"
    /\ IF dataset_file = "absent"
       THEN metadata_ret' = "False" /\ posts' = posts
       ELSE IF dataset_file = "corrupt"
            THEN metadata_ret' = "raised" /\ posts' = posts    \* json.load raises
            ELSE \E response \in PostOutcomes :
                    /\ posts' = Append(posts, Post(MetadataUrl, DatasetBody, response))
                    /\ metadata_ret' = MetadataResult(response)
    /\ submit_pc' = AfterMetadata(branch, metadata_ret')
    /\ UNCHANGED <<args, dataset_file, texts_file, branch, texts_ret, text_pos,
                   success_count, failed_count, adapter_vars>>

\* submit_texts up to its loop
SubmitTextsBegin ==
    /\ submit_pc = "submit_texts"
    /\ IF ~texts_file.exists \/ texts_file.texts = <<>>
       THEN /\ texts_ret' = [returned |-> TRUE, value |-> 0]
            /\ submit_pc' = "done"
       ELSE /\ texts_ret' = texts_ret
            /\ submit_pc' = "ingest"
    /\ text_pos' = 0
    /\ success_count' = 0
    /\ failed_count' = 0
    /\ UNCHANGED <<args, dataset_file, texts_file, branch, posts, metadata_ret,
                   adapter_vars>>

\* one iteration of `for idx, text_data in enumerate(texts, 1)`
IngestItem ==
    /\ submit_pc = "ingest"
    /\ text_pos < Len(texts_file.texts)
    /\ \E response \in PostOutcomes :
          LET text_data == texts_file.texts[text_pos + 1]
          IN  /\ posts' = Append(posts, Post(IngestUrl, text_data, response))
              /\ success_count' = success_count + (IF ItemSucceeded(response) THEN 1 ELSE 0)
              /\ failed_count' = failed_count + (IF ItemSucceeded(response) THEN 0 ELSE 1)
              /\ text_pos' = AfterItem(text_pos, ItemSucceeded(response), Len(texts_file.texts))
    /\ UNCHANGED <<args, dataset_file, texts_file, submit_pc, branch, metadata_ret,
                   texts_ret, adapter_vars>>

\* submit_texts after its loop: return success_count
SubmitTextsReturn ==
    /\ submit_pc = "ingest"
    /\ text_pos >= Len(texts_file.texts)
    /\ texts_ret' = [returned |-> TRUE, value |-> success_count]
    /\ submit_pc' = "done"
    /\ UNCHANGED <<args, dataset_file, texts_file, branch, posts, metadata_ret,
                   text_pos, success_count, failed_count, adapter_vars>>

NextSubmit ==
    \/ Main
    \/ SubmitMetadata
    \/ SubmitTextsBegin
    \/ IngestItem
    \/ SubmitTextsReturn

SpecSubmit == InitSubmit /\ [][NextSubmit]_vars

(***************************************************************************)
(* Properties of _build_text_mapping (SpecMatch).                          *)
(***************************************************************************)
\* the pairs <<i, j>>: candidate i of the name equals the key of listed file j
Hits(name) ==
    LET generated == CandidatesOf[name]
        cands == [i \in DOMAIN generated |-> Lower(generated[i])]
        keys == [j \in DOMAIN text_dir |-> Lower(StemOf[text_dir[j]])]
    IN  {<<i, j>> \in (DOMAIN cands) \X (DOMAIN text_dir) : keys[j] = cands[i]}

\* among the hits, the file of the earliest candidate, first in listing order
FirstHit(hits) ==
    LET i0 == CHOOSE i \in {h[1] : h \in hits} : \A h \in hits : i <= h[1]
        j0 == CHOOSE j \in {h[2] : h \in {g \in hits : g[1] = i0}} :
                    \A h \in hits : h[1] = i0 => j <= h[2]
    IN  text_dir[j0]

ArnoldyCandidates ==
    <<<<"a","r","n","o","l","d","y","_","s","i","s","t","e","r","_","m","a","r","y","_","n","i","c","h","o","l","a","s">>,
      <<"a","r","n","o","l","d","y","_","n","i","c","h","o","l","a","s">>,
      <<"a","r","n","o","l","d","y","_","s","i","s","t","e","r">>,
      <<"s","i","s","t","e","r","_","a","r","n","o","l","d","y">>,
      <<"s","i","s","t","e","r","_","m","a","r","y","_","n","i","c","h","o","l","a","s","_","a","r","n","o","l","d","y">>>>

RachelAdamsCandidates ==
    <<<<"a","d","a","m","s","_","r","a","c","h","e","l">>,
      <<"r","a","c","h","e","l","_","a","d","a","m","s">>,
      <<"r","a","c","h","e","l","_","a","d","a","m","s">>>>

C6_NoSharedFile ==
    adapter_pc = "constructed" =>
        \A n1, n2 \in DOMAIN text_files :
            n1 # n2 => text_files[n1] # text_files[n2]

EndsWith(s, suffix) ==
    Len(s) >= Len(suffix) /\ OccursAt(s, suffix, Len(s) - Len(suffix) + 1)

\* the file name without a trailing ".pdf.txt" or ".txt"
WithoutTrailingSuffix(file_name) ==
    IF EndsWith(file_name, PdfTxt) THEN SubSeq(file_name, 1, Len(file_name) - Len(PdfTxt))
    ELSE IF EndsWith(file_name, Txt) THEN SubSeq(file_name, 1, Len(file_name) - Len(Txt))
    ELSE file_name

\* C9: the comparison key of every text file is its name with only a trailing
\* ".pdf.txt" or ".txt" removed; occurrences elsewhere in the name are kept
C9_OnlyTrailingSuffixRemoved ==
    adapter_pc = "constructed" =>
        \A i \in DOMAIN stems : stems[i] = WithoutTrailingSuffix(text_dir[i])

(***************************************************************************)
(* Properties of map_entity (SpecResolve).                                 *)
(***************************************************************************)
RECURSIVE SlugFrom(_, _)
\* the slug, character by character: lowercased, a space becomes "_", periods,
\* commas and parentheses are dropped
SlugFrom(s, i) ==
    IF i > Len(s) THEN <<>>
    ELSE (IF s[i] \in {".", ",", "(", ")"} THEN <<>>
          ELSE IF s[i] = " " THEN <<"_">>
          ELSE <<LowerChar(s[i])>>) \o SlugFrom(s, i + 1)

HasMathematician(result) ==
    result.dkind = "str" /\ Contains(Lower(result.dval), Mathematician)

\* C4: whatever the search does, map_entity, when the validator accepts the
\* identifiers, returns one of two shapes: "wikidata:" + qid, confidence 0.8 and
\* the one-element list of the local identifier when the search found a match;
\* the local identifier, confidence 0.5 and no alternates otherwise.  No search
\* failure propagates out of map_entity.
C4_TwoShapes ==
    adapter_pc = "mapped" =>
        LET name == personal[1].full_name
            local == LocalPrefix \o SlugFrom(name, 1)
            found == lookup_wikidata(env.search)
            results == env.search.results
            LocalShape == [entity_id |-> local, entity_ids |-> None, confidence |-> "0.5"]
            WikidataShape(qid) ==
                [entity_id |-> WikidataPrefix \o qid,
                 entity_ids |-> Some(<<local>>), confidence |-> "0.8"]
        IN  /\ (env.valid_id /\ env.valid_alt) => ~mapping.raised
            /\ ~mapping.raised =>
                  IF found.none THEN mapping.val = LocalShape
                  ELSE mapping.val = WikidataShape(found.val)
            /\ (\/ env.search.kind = "exception"
                \/ env.search.status # "200"
                \/ \A i \in DOMAIN results : ~HasMathematician(results[i]))
               => found.none
            /\ (/\ env.search.kind = "response"
                /\ env.search.status = "200"
                /\ \E i \in DOMAIN results :
                      /\ HasMathematician(results[i])
                      /\ ~results[i].id.none
                      /\ \A j \in 1..(i - 1) : results[j].dkind # "null"
                                                /\ ~HasMathematician(results[j]))
               => ~found.none

\* a match behind a result that is no mathematician; the name holds parentheses
C4_Witness ==
    /\ adapter_pc = "mapped"
    /\ personal[1].full_name = AnnaPellWheeler
    /\ Len(env.search.results) = 2
    /\ ~HasMathematician(env.search.results[1])
    /\ ~mapping.raised
    /\ mapping.val.confidence = "0.8"

(***************************************************************************)
(* Properties of prepare (SpecPrepare).                                    *)
(***************************************************************************)
\* C3: a record whose processing raised (entity resolution, validation, building
\* the author record, reading its text) is in neither authors nor texts
C3_FailedRecordInNeitherList ==
    \A r \in DOMAIN raised_at :
        raised_at[r] # "none" =>
            /\ r \notin Range(author_rows)
            /\ r \notin Range(text_rows)

Increasing(rows) == \A i, j \in DOMAIN rows : i < j => rows[i] < rows[j]

\* C10: every entry of texts carries the entity_id of the author record made
\* from the same person record, so texts is never longer than authors, and both
\* lists keep the input order of the records
C10_TextsFollowAuthors ==
    /\ Len(author_rows) = Len(authors)
    /\ Len(text_rows) = Len(texts)
    /\ \A k \in DOMAIN texts :
          \E j \in DOMAIN authors :
              /\ author_rows[j] = text_rows[k]
              /\ authors[j].name = personal[text_rows[k]].full_name
              /\ authors[j].entity_id = texts[k].entity_id
    /\ Len(texts) <= Len(authors)
    /\ Increasing(author_rows)
    /\ Increasing(text_rows)
    /\ \A j \in DOMAIN authors : authors[j].name = personal[author_rows[j]].full_name

\* prepare returned with two authors, one of them without text because reading
\* it raised, and a text filed under a wikidata identifier
C10_Witness ==
    /\ adapter_pc = "returned"
    /\ Len(texts) = 1
    /\ Len(authors) = 2
    /\ \E r \in DOMAIN raised_at : raised_at[r] = "get_text"
    /\ texts[1].entity_id = WikidataPrefix \o Q7251

(***************************************************************************)
(* Properties of the submitter (SpecSubmit).                               *)
(***************************************************************************)
IngestPosts == SelectSeq(posts, LAMBDA p : p.url = IngestUrl)
MetadataPosts == SelectSeq(posts, LAMBDA p : p.url = MetadataUrl)
Status200(p) == p.response.kind = "response" /\ p.response.status = "200"
NonEmptyTexts == texts_file.exists /\ texts_file.texts # <<>>

\* every listed item was posted once, in list order
AllItemsPosted ==
    /\ Len(IngestPosts) = Len(texts_file.texts)
    /\ \A k \in DOMAIN IngestPosts : IngestPosts[k].body = texts_file.texts[k]

\* C1: in submit_all, when submit_metadata fails (dataset.json absent, a non-200
\* response, a connection failure, any other exception) no ingest POST is ever
\* issued; an ingest POST only follows a metadata POST that succeeded
C1_NoIngestAfterFailedMetadata ==
    branch = "submit_all" =>
        /\ metadata_ret \in {"False", "raised"} => IngestPosts = <<>>
        /\ submit_pc \in {"submit_texts", "ingest"} => metadata_ret = "True"
        /\ \A k \in DOMAIN posts :
              posts[k].url = IngestUrl =>
                  /\ k > 1
                  /\ posts[1].url = MetadataUrl
                  /\ Status200(posts[1])
                  /\ metadata_ret = "True"

\* submit_all ended after a metadata POST answered 500, with texts to ingest
C1_Witness ==
    /\ branch = "submit_all"
    /\ submit_pc = "done"
    /\ NonEmptyTexts
    /\ Len(posts) = 1
    /\ posts[1].response = Response("500", FALSE)
    /\ metadata_ret = "False"

\* C2: submit_texts with a non-empty list of n items issues exactly one ingest
\* POST per item, in list order, whatever the outcome of the earlier items; at
\* the end success_count + failed_count = n and success_count is returned
C2_OnePostPerItem ==
    /\ submit_pc = "ingest" =>
          /\ Len(IngestPosts) = text_pos
          /\ text_pos <= Len(texts_file.texts)
          /\ \A k \in DOMAIN IngestPosts : IngestPosts[k].body = texts_file.texts[k]
          /\ success_count + failed_count = text_pos
    /\ (texts_ret.returned /\ NonEmptyTexts) =>
          /\ AllItemsPosted
          /\ success_count + failed_count = Len(texts_file.texts)
          /\ texts_ret.value = success_count

\* submit_texts returned after three items, the first two of which failed
C2_Witness ==
    /\ texts_ret.returned
    /\ Len(texts_file.texts) = 3
    /\ IngestPosts[1].response = OtherException
    /\ IngestPosts[2].response = Response("500", FALSE)
    /\ IngestPosts[3].response = Response("200", TRUE)
    /\ texts_ret.value = 1

\* C5: submit_metadata returns True if and only if its POST returned status 200;
\* without dataset.json it returns False and issues no POST; a non-200 response,
\* a connection failure or any other exception of the POST makes it return False
C5_TrueIffStatus200 ==
    metadata_ret # "pending" =>
        /\ metadata_ret = "True" <=>
              \E k \in DOMAIN MetadataPosts : Status200(MetadataPosts[k])
        /\ dataset_file = "absent" => (metadata_ret = "False" /\ MetadataPosts = <<>>)
        /\ (\E k \in DOMAIN MetadataPosts : ~Status200(MetadataPosts[k]))
              => metadata_ret = "False"

\* C7: neither flag runs submit_all (metadata, then texts only if metadata
\* succeeded); --metadata-only issues no ingest POST; --texts-only alone issues
\* no metadata POST and ingests without a metadata submission; both flags
\* together behave as --metadata-only
C7_FlagsSelectPhases ==
    submit_pc # "main" =>
        /\ args.metadata_only =>
              /\ branch = "metadata_only"
              /\ IngestPosts = <<>>
              /\ ~texts_ret.returned
              /\ (submit_pc = "done" /\ dataset_file = "valid") => Len(MetadataPosts) = 1
        /\ (~args.metadata_only /\ args.texts_only) =>
              /\ branch = "texts_only"
              /\ MetadataPosts = <<>>
              /\ metadata_ret = "pending"
              /\ (submit_pc = "done" /\ NonEmptyTexts) => AllItemsPosted
        /\ (~args.metadata_only /\ ~args.texts_only) =>
              /\ branch = "submit_all"
              /\ IngestPosts # <<>> => metadata_ret = "True"
              /\ (submit_pc = "done" /\ metadata_ret = "True" /\ NonEmptyTexts)
                    => AllItemsPosted
              /\ (submit_pc = "done" /\ metadata_ret = "True") => texts_ret.returned
              /\ submit_pc = "done" => metadata_ret # "pending"

\* both flags given: the run ended after the metadata POST alone
C7_Witness ==
    /\ args.metadata_only
    /\ args.texts_only
    /\ submit_pc = "done"
    /\ NonEmptyTexts
    /\ metadata_ret = "True"
    /\ Len(posts) = 1

====
